---- MODULE Spec2Model ----
(***************************************************************************)
(* Model of WebsiteScraper/app.py: the WebScraper class (link extraction,  *)
(* image discovery, breadth-first crawl) and the part of main() that       *)
(* consumes the page map.                                                  *)
(*                                                                         *)
(* A Python str is a sequence of tokens.  No token of the alphabet is a    *)
(* prefix of another one, so str.startswith on the tokens is               *)
(* str.startswith on the characters.  "//" is the two tokens "/", "/".     *)
(***************************************************************************)
EXTENDS Integers, Sequences, FiniteSets, TLC

\* ------------------------------------------------------------------ bounds
\* Largest page budget (max_pages) the crawl is started with.
MaxBudget == 3

\* ------------------------------------------------------- strings and URLs
Min(a, b) == IF a < b THEN a ELSE b

\* str.startswith(pre)
StartsWith(s, pre) ==
    /\ Len(pre) <= Len(s)
    /\ SubSeq(s, 1, Len(pre)) = pre

\* The value None / the empty str: both are falsy in `if not href`.
None == << >>

\* Marks a call that raised (ValueError from urllib.parse).
RAISED == << "!ValueError" >>

\* Index of the first occurrence of token t in s at or after position i,
\* Len(s) + 1 when there is none.
RECURSIVE FindFrom(_, _, _)
FindFrom(s, t, i) ==
    IF i > Len(s) THEN Len(s) + 1
    ELSE IF s[i] = t THEN i
    ELSE FindFrom(s, t, i + 1)

\* A token that is a URL scheme followed by ':'.
IsSchemeToken(t) == t \in {"http:", "https:", "x:", "mailto:", "tel:"}

\* Position where the part after the scheme starts.
AfterScheme(s) == IF Len(s) >= 1 /\ IsSchemeToken(s[1]) THEN 2 ELSE 1

\* urlsplit: the URL has a netloc when "//" follows the (optional) scheme.
HasNetloc(s) ==
    LET i == AfterScheme(s)
    IN  Len(s) >= i + 1 /\ s[i] = "/" /\ s[i + 1] = "/"

\* End of the netloc: the first of "/", "#" after the "//" (exclusive).
NetlocEnd(s) ==
    LET i == AfterScheme(s) + 2
    IN  Min(FindFrom(s, "/", i), FindFrom(s, "#", i))

\* urlparse(s).netloc
Netloc(s) ==
    IF HasNetloc(s) THEN SubSeq(s, AfterScheme(s) + 2, NetlocEnd(s) - 1) ELSE << >>

\* urlsplit raises ValueError("Invalid IPv6 URL") when the netloc holds '['
\* without ']' (the alphabet has no "]").
UrlParseRaises(s) == \E i \in DOMAIN Netloc(s) : Netloc(s)[i] = "["

\* Mutant of StripFragment: the fragment is kept.
StripFragment_Keep(s) == s

\* urlunparse(urlparse(s)._replace(fragment='')): s up to its first '#'.
StripFragment(s) == SubSeq(s, 1, FindFrom(s, "#", 1) - 1)

\* f"{parsed_url.scheme}://{parsed_url.netloc}"
SchemeAndNetloc(s) ==
    (IF AfterScheme(s) = 2 THEN << s[1] >> ELSE << ":" >>) \o << "/", "/" >> \o Netloc(s)

\* Position of the last "/" of s at or after position lo, 0 when none.
RECURSIVE LastSlash(_, _, _)
LastSlash(s, lo, i) ==
    IF i < lo THEN 0
    ELSE IF s[i] = "/" THEN i
    ELSE LastSlash(s, lo, i - 1)

\* urllib.parse.urljoin(base, ref) for an absolute http(s) base.
UrlJoin(base, ref) ==
    LET b    == StripFragment(base)
        org  == SchemeAndNetloc(b)
        cut  == LastSlash(b, Len(org) + 1, Len(b))
        dir  == IF cut = 0 THEN org \o << "/" >> ELSE SubSeq(b, 1, cut)
    IN  IF UrlParseRaises(base) \/ UrlParseRaises(ref) THEN RAISED
        ELSE IF ref = << >> THEN base
        ELSE IF IsSchemeToken(ref[1]) THEN ref
        ELSE IF StartsWith(ref, << "/", "/" >>) THEN << b[1] >> \o ref
        ELSE IF ref[1] = "/" THEN org \o ref
        ELSE IF ref[1] = "#" THEN b \o ref
        ELSE dir \o ref

\* ------------------------------------------------------------- documents
\* A parsed page (BeautifulSoup) is the sequence, in document order, of its
\* link-bearing elements and the sequence of its <img> src attributes.  An
\* element has a tag, one class token, an id, a role, the tag of the one
\* ancestor that wraps it alone ("" when none), and the href attributes of
\* the <a href> elements under it, in document order.
Elem(tag, cls, id, role, parent, hrefs) ==
    [tag |-> tag, cls |-> cls, id |-> id, role |-> role, parent |-> parent,
     hrefs |-> hrefs]

Doc(elems, imgs) == [elems |-> elems, imgs |-> imgs]

\* CSS selectors: a tag, a descendant pair of tags, a class, an id, a role.
TagSel(v)      == [t |-> "tag", a |-> "", v |-> v]
DescSel(a, v)  == [t |-> "desc", a |-> a, v |-> v]
ClassSel(v)    == [t |-> "class", a |-> "", v |-> v]
IdSel(v)       == [t |-> "id", a |-> "", v |-> v]
RoleSel(v)     == [t |-> "role", a |-> "", v |-> v]

\* Mutant of nav_selectors: the role pattern comes before the header tag.
nav_selectors_RoleFirst ==
    << TagSel("nav"), DescSel("header", "nav"),
       ClassSel("navbar"), ClassSel("navigation"), ClassSel("nav"),
       ClassSel("menu"), ClassSel("main-nav"), ClassSel("primary-nav"),
       ClassSel("header-nav"), ClassSel("site-nav"), ClassSel("top-nav"),
       ClassSel("nav-menu"), ClassSel("nav-bar"),
       IdSel("navbar"), IdSel("navigation"), IdSel("nav"), IdSel("menu"),
       IdSel("main-nav"), IdSel("primary-nav"), IdSel("header-nav"),
       IdSel("site-nav"), IdSel("top-nav"),
       RoleSel("navigation"),
       TagSel("header"),
       ClassSel("header"), ClassSel("site-header"), ClassSel("main-header") >>

\* The ordered list nav_selectors.
nav_selectors ==
    << TagSel("nav"), DescSel("header", "nav"),
       ClassSel("navbar"), ClassSel("navigation"), ClassSel("nav"),
       ClassSel("menu"), ClassSel("main-nav"), ClassSel("primary-nav"),
       ClassSel("header-nav"), ClassSel("site-nav"), ClassSel("top-nav"),
       ClassSel("nav-menu"), ClassSel("nav-bar"),
       IdSel("navbar"), IdSel("navigation"), IdSel("nav"), IdSel("menu"),
       IdSel("main-nav"), IdSel("primary-nav"), IdSel("header-nav"),
       IdSel("site-nav"), IdSel("top-nav"),
       TagSel("header"),
       RoleSel("navigation"),
       ClassSel("header"), ClassSel("site-header"), ClassSel("main-header") >>

\* The ordered list fallback_selectors: 'ul li a', '.menu-item a',
\* '.nav-item a' select the anchors under the container.
fallback_selectors == << TagSel("ul"), ClassSel("menu-item"), ClassSel("nav-item") >>

\* fallback_links[:10]
FallbackCap == 10

\* The element itself matches the selector.
SelfMatches(e, sel) ==
    CASE sel.t = "tag"   -> e.tag = sel.v
      [] sel.t = "desc"  -> e.tag = sel.v /\ e.parent = sel.a
      [] sel.t = "class" -> e.cls = sel.v
      [] sel.t = "id"    -> e.id = sel.v
      [] sel.t = "role"  -> e.role = sel.v

\* The wrapping ancestor of the element matches the selector (the ancestor
\* carries a tag only).
ParentMatches(e, sel) == sel.t = "tag" /\ e.parent = sel.v

\* soup.select(selector), each selected element given as the list of the
\* hrefs nav_element.find_all('a', href=True) yields (an ancestor holds the
\* anchors of the element it wraps).
RECURSIVE Select(_, _)
Select(elems, sel) ==
    IF elems = << >> THEN << >>
    ELSE LET e == Head(elems)
         IN  (IF ParentMatches(e, sel) THEN << e.hrefs >> ELSE << >>)
             \o (IF SelfMatches(e, sel) THEN << e.hrefs >> ELSE << >>)
             \o Select(Tail(elems), sel)

\* The nested for loops over the elements and their links visit the hrefs
\* in this order.
RECURSIVE Flatten(_)
Flatten(lists) ==
    IF lists = << >> THEN << >> ELSE Head(lists) \o Flatten(Tail(lists))

\* ------------------------------------------------- find_navigation_links
\* self.base_domain, set from the first base_url the method is called with.
BaseDomainOf(base_domain, base_url) ==
    IF base_domain = None THEN SchemeAndNetloc(base_url) ELSE base_domain

\* if not href or href.startswith('#') or ... 'mailto:' ... 'tel:': continue
SkippedHref(href) ==
    \/ href = None
    \/ StartsWith(href, << "#" >>)
    \/ StartsWith(href, << "mailto:" >>)
    \/ StartsWith(href, << "tel:" >>)

\* href.startswith(('http://', 'https://'))
IsHttpAbsolute(href) ==
    \/ StartsWith(href, << "http:", "/", "/" >>)
    \/ StartsWith(href, << "https:", "/", "/" >>)

\* Convert relative URLs to absolute (RAISED when urljoin raises).
AbsoluteUrl(href, base_url, base_domain) ==
    IF StartsWith(href, << "/", "/" >>) THEN << "https:" >> \o href
    ELSE IF StartsWith(href, << "/" >>) THEN base_domain \o href
    ELSE IF ~IsHttpAbsolute(href) THEN UrlJoin(base_url, href)
    ELSE href

\* Only include links from the same domain.
SameDomain(absolute_url, base_domain) == StartsWith(absolute_url, base_domain)

\* The body of the loop over the links for the hrefs from position i on:
\* the links added and whether an exception ended the loop.
RECURSIVE ScanLinks(_, _, _, _)
ScanLinks(hrefs, i, base_url, base_domain) ==
    IF i > Len(hrefs) THEN [links |-> {}, raised |-> FALSE]
    ELSE LET href == hrefs[i]
             abs  == AbsoluteUrl(href, base_url, base_domain)
             rest == ScanLinks(hrefs, i + 1, base_url, base_domain)
         IN  IF SkippedHref(href) THEN rest
             ELSE IF abs = RAISED THEN [links |-> {}, raised |-> TRUE]
             ELSE IF ~SameDomain(abs, base_domain) THEN rest
             ELSE IF UrlParseRaises(abs) THEN [links |-> {}, raised |-> TRUE]
             ELSE [links |-> {StripFragment(abs)} \cup rest.links,
                   raised |-> rest.raised]

\* The loop over nav_selectors from selector i on, with the links and the
\* flag nav_links_found as they stand: the links when the loop is left.
RECURSIVE PrimaryLinks(_, _, _, _, _, _)
PrimaryLinks(doc, i, links, found, base_url, base_domain) ==
    IF i > Len(nav_selectors) THEN links
    ELSE LET els    == Select(doc.elems, nav_selectors[i])
             r      == ScanLinks(Flatten(els), 1, base_url, base_domain)
             links2 == links \cup r.links
             found2 == found \/ r.links # {}
         IN  IF els = << >>
             THEN PrimaryLinks(doc, i + 1, links, found, base_url, base_domain)
             ELSE IF r.raised \/ ~found2
             THEN PrimaryLinks(doc, i + 1, links2, found2, base_url, base_domain)
             ELSE links2

\* The loop over fallback_selectors from selector i on.
RECURSIVE FallbackLinks(_, _, _, _, _)
FallbackLinks(doc, i, links, base_url, base_domain) ==
    IF i > Len(fallback_selectors) THEN links
    ELSE LET all    == Flatten(Select(doc.elems, fallback_selectors[i]))
             first  == SubSeq(all, 1, Min(FallbackCap, Len(all)))
             r      == ScanLinks(first, 1, base_url, base_domain)
             links2 == links \cup r.links
         IN  IF r.raised \/ links2 = {}
             THEN FallbackLinks(doc, i + 1, links2, base_url, base_domain)
             ELSE links2

\* find_navigation_links(soup, base_url) with self.base_domain as given.
find_navigation_links(doc, base_url, base_domain0) ==
    LET bd      == BaseDomainOf(base_domain0, base_url)
        primary == PrimaryLinks(doc, 1, {}, FALSE, base_url, bd)
    IN  IF primary # {} THEN primary
        ELSE FallbackLinks(doc, 1, {}, base_url, bd)

\* ------------------------------------------------------------ find_images
\* Convert relative URLs to absolute (RAISED when urljoin raises).
ImageUrl(src, base_url) ==
    IF StartsWith(src, << "/", "/" >>) THEN << "https:" >> \o src
    ELSE IF StartsWith(src, << "/" >>) THEN UrlJoin(base_url, src)
    ELSE IF ~IsHttpAbsolute(src) THEN UrlJoin(base_url, src)
    ELSE src

\* The loop over img_tags from position idx on: the image records appended
\* and whether a urljoin raised.
RECURSIVE ImagesFrom(_, _, _)
ImagesFrom(srcs, idx, base_url) ==
    IF idx > Len(srcs) THEN [raised |-> FALSE, images |-> << >>]
    ELSE LET src  == srcs[idx]
             url  == ImageUrl(src, base_url)
             rest == ImagesFrom(srcs, idx + 1, base_url)
         IN  IF src = None THEN rest
             ELSE IF url = RAISED THEN [raised |-> TRUE, images |-> << >>]
             ELSE [raised |-> rest.raised,
                   images |-> << [url |-> url, index |-> idx] >> \o rest.images]

\* find_images(soup, base_url)
find_images(doc, base_url) == ImagesFrom(doc.imgs, 1, base_url)

\* ------------------------------------------------------- the crawled site
T_https == << "https:", "/", "/" >>
SeedHost == << "example.com" >>

\* Page URLs of the model.
UrlRoot == T_https \o SeedHost \o << "/" >>
UrlP    == T_https \o SeedHost \o << "/", "p" >>
UrlQ    == T_https \o SeedHost \o << "/", "q" >>
UrlEvil == T_https \o SeedHost \o << ".evil.org", "/" >>

\* href and src attributes of the model.
HrefRoot  == << "/" >>
HrefP     == << "/", "p" >>
HrefPFrag == << "/", "p", "#", "a" >>
HrefQ     == << "q" >>
HrefEvil  == UrlEvil
HrefBad   == << "x:", "/", "/", "[" >>
SrcLogo   == << "/", "logo.png" >>

Nav(hrefs)     == Elem("nav", "", "", "", "", hrefs)
Header(hrefs)  == Elem("header", "", "", "", "", hrefs)
RoleNav(hrefs) == Elem("div", "", "", "navigation", "", hrefs)
UlList(hrefs)  == Elem("ul", "", "", "", "", hrefs)
HeaderDiv(hrefs) == Elem("div", "header", "", "", "", hrefs)

EmptyDoc == Doc(<< >>, << >>)

\* The pages a server of the crawl model can answer with.
CrawlDocs ==
    { EmptyDoc,
      Doc(<< Nav(<< HrefP, HrefQ >>) >>, << SrcLogo >>),
      Doc(<< Nav(<< HrefPFrag >>) >>, << >>),
      Doc(<< Header(<< HrefRoot >>) >>, << >>),
      Doc(<< Nav(<< HrefP, HrefQ >>) >>, << HrefBad >>),
      Doc(<< UlList(<< HrefEvil, HrefQ >>) >>, << >>) }

\* Seed URLs: with and without a fragment.
Seeds == { UrlRoot, UrlRoot \o << "#", "a" >> }

\* The server's answer does not depend on the fragment of the request URL;
\* a URL outside the site answers with a page without links.
SiteDoc(s, url) ==
    IF StripFragment(url) \in DOMAIN s THEN s[StripFragment(url)] ELSE EmptyDoc

\* ---------------------------------------------------------------- state
VARIABLES
    start_url,      \* crawl_website's start_url
    max_pages,      \* crawl_website's max_pages
    site,           \* the pages behind the URLs (the environment)
    pages_data,     \* dict url -> page record
    urls_to_visit,  \* the frontier list
    visited_urls,   \* self.visited_urls
    base_domain,    \* self.base_domain (None until first set)
    current_url,    \* the URL popped in this iteration
    soup,           \* the parsed page of this iteration
    images,         \* find_images' result of this iteration
    page_links,     \* find_navigation_links' result of this iteration
    to_add,         \* links the loop `for link in page_links` has yet to visit
    pc,             \* position in crawl_website / main
    fetch_log,      \* history: every get_html_content call, with its outcome
    enqueue_log,    \* history: every URL put on the frontier, in order
    warnings,       \* st.warning calls: the URLs reported as failed
    shown,          \* what main shows after crawl_website returned
    all_images,     \* main's aggregated image list
    img_i,          \* main's loop index i over all_images
    processed_images, \* main's processed_images
    img_log,        \* history: every download_and_convert_image call
    errors,         \* number of st.error calls of download_and_convert_image
    img_element,    \* the <img> element get_image_location is called with
    location        \* get_image_location's result

vars == << start_url, max_pages, site, pages_data, urls_to_visit, visited_urls,
           base_domain, current_url, soup, images, page_links, to_add, pc,
           fetch_log, enqueue_log, warnings, shown, all_images, img_i,
           processed_images, img_log, errors, img_element, location >>

\* The state of main's image loop and of get_image_location.
auxVars == << all_images, img_i, processed_images, img_log, errors,
              img_element, location >>

\* Before main's image loop and without a call of get_image_location.
AuxIdle ==
    /\ all_images = << >>
    /\ img_i = 0
    /\ processed_images = << >>
    /\ img_log = << >>
    /\ errors = 0
    /\ img_element = << >>
    /\ location = None

\* WebScraper(): a fresh scraper; crawl_website has not been called yet.
Init ==
    /\ start_url = None
    /\ max_pages = 0
    /\ site = [u \in {UrlRoot, UrlP, UrlQ} |-> EmptyDoc]
    /\ pages_data = << >>
    /\ urls_to_visit = << >>
    /\ visited_urls = {}
    /\ base_domain = None
    /\ current_url = None
    /\ soup = EmptyDoc
    /\ images = << >>
    /\ page_links = {}
    /\ to_add = {}
    /\ pc = "start"
    /\ fetch_log = << >>
    /\ enqueue_log = << >>
    /\ warnings = << >>
    /\ shown = "nothing"
    /\ AuxIdle

\* main calls scraper.crawl_website(url, max_pages) against some site:
\* pages_data = {}, urls_to_visit = [start_url].
CrawlStart ==
    /\ pc = "start"
    /\ start_url' \in Seeds
    /\ max_pages' \in 0..MaxBudget
    /\ site' \in [{UrlRoot, UrlP, UrlQ} -> CrawlDocs]
    /\ pages_data' = << >>
    /\ urls_to_visit' = << start_url' >>
    /\ enqueue_log' = << start_url' >>
    /\ pc' = "loop"
    /\ UNCHANGED << visited_urls, base_domain, current_url, soup, images,
                    page_links, to_add, fetch_log, warnings, shown >>
    /\ UNCHANGED auxVars

\* len(pages_data)
NumPages == Cardinality(DOMAIN pages_data)

\* while urls_to_visit and len(pages_data) < max_pages
LoopCondition == urls_to_visit # << >> /\ NumPages < max_pages

\* Mutant of PopUrl: pops the newest URL (a stack instead of a queue).
PopUrl_Newest(q) == [url |-> q[Len(q)], rest |-> SubSeq(q, 1, Len(q) - 1)]

\* Mutant of PopUrl: reads the first URL and leaves it on the list.
PopUrl_Peek(q) == [url |-> Head(q), rest |-> q]

\* urls_to_visit.pop(0): the URL taken and the list left.
PopUrl(q) == [url |-> Head(q), rest |-> Tail(q)]

\* Mutant of IsNewLink: the visited set is not consulted.
IsNewLink_NoVisitedTest(link, visited, q) == \A i \in DOMAIN q : q[i] # link

\* link not in self.visited_urls and link not in urls_to_visit
IsNewLink(link, visited, q) ==
    /\ link \notin visited
    /\ \A i \in DOMAIN q : q[i] # link

\* The while test holds: pop the next URL; skip it if already visited.
LoopPop ==
    /\ pc = "loop"
    /\ LoopCondition
    /\ current_url' = PopUrl(urls_to_visit).url
    /\ urls_to_visit' = PopUrl(urls_to_visit).rest
    /\ pc' = IF current_url' \in visited_urls THEN "loop" ELSE "fetch"
    /\ UNCHANGED << start_url, max_pages, site, pages_data, visited_urls,
                    base_domain, soup, images, page_links, to_add, fetch_log,
                    enqueue_log, warnings, shown >>
    /\ UNCHANGED auxVars

\* The while test fails: return pages_data.
LoopExit ==
    /\ pc = "loop"
    /\ ~LoopCondition
    /\ pc' = "returned"
    /\ UNCHANGED << start_url, max_pages, site, pages_data, urls_to_visit,
                    visited_urls, base_domain, current_url, soup, images,
                    page_links, to_add, fetch_log, enqueue_log, warnings, shown >>
    /\ UNCHANGED auxVars

\* get_html_content raises; the except clause warns and continues.
FetchFails ==
    /\ pc = "fetch"
    /\ fetch_log' = Append(fetch_log, [url |-> current_url, ok |-> FALSE])
    /\ warnings' = Append(warnings, current_url)
    /\ pc' = "loop"
    /\ UNCHANGED << start_url, max_pages, site, pages_data, urls_to_visit,
                    visited_urls, base_domain, current_url, soup, images,
                    page_links, to_add, enqueue_log, shown >>
    /\ UNCHANGED auxVars

\* get_html_content returns; self.visited_urls.add(current_url).
FetchSucceeds ==
    /\ pc = "fetch"
    /\ fetch_log' = Append(fetch_log, [url |-> current_url, ok |-> TRUE])
    /\ soup' = SiteDoc(site, current_url)
    /\ visited_urls' = visited_urls \cup {current_url}
    /\ pc' = "find_images"
    /\ UNCHANGED << start_url, max_pages, site, pages_data, urls_to_visit,
                    base_domain, current_url, images, page_links, to_add,
                    enqueue_log, warnings, shown >>
    /\ UNCHANGED auxVars

\* find_images returns the page's images.
FindImagesReturns ==
    /\ pc = "find_images"
    /\ ~find_images(soup, current_url).raised
    /\ images' = find_images(soup, current_url).images
    /\ pc' = "find_links"
    /\ UNCHANGED << start_url, max_pages, site, pages_data, urls_to_visit,
                    visited_urls, base_domain, current_url, soup, page_links,
                    to_add, fetch_log, enqueue_log, warnings, shown >>
    /\ UNCHANGED auxVars

\* find_images raises; the except clause warns and continues.
FindImagesRaises ==
    /\ pc = "find_images"
    /\ find_images(soup, current_url).raised
    /\ warnings' = Append(warnings, current_url)
    /\ pc' = "loop"
    /\ UNCHANGED << start_url, max_pages, site, pages_data, urls_to_visit,
                    visited_urls, base_domain, current_url, soup, images,
                    page_links, to_add, fetch_log, enqueue_log, shown >>
    /\ UNCHANGED auxVars

\* page_links = self.find_navigation_links(soup, current_url)
FindLinks ==
    /\ pc = "find_links"
    /\ page_links' = find_navigation_links(soup, current_url, base_domain)
    /\ base_domain' = BaseDomainOf(base_domain, current_url)
    /\ to_add' = page_links'
    /\ pc' = "enqueue"
    /\ UNCHANGED << start_url, max_pages, site, pages_data, urls_to_visit,
                    visited_urls, current_url, soup, images, fetch_log,
                    enqueue_log, warnings, shown >>
    /\ UNCHANGED auxVars

\* One iteration of `for link in page_links` (a set: any order).
EnqueueLink ==
    /\ pc = "enqueue"
    /\ \E link \in to_add :
        /\ to_add' = to_add \ {link}
        /\ IF IsNewLink(link, visited_urls, urls_to_visit)
           THEN /\ urls_to_visit' = Append(urls_to_visit, link)
                /\ enqueue_log' = Append(enqueue_log, link)
           ELSE UNCHANGED << urls_to_visit, enqueue_log >>
    /\ UNCHANGED << start_url, max_pages, site, pages_data, visited_urls,
                    base_domain, current_url, soup, images, page_links, pc,
                    fetch_log, warnings, shown >>
    /\ UNCHANGED auxVars

\* pages_data[current_url] = {...}, after the for loop.
StorePage ==
    /\ pc = "enqueue"
    /\ to_add = {}
    /\ pages_data' =
         [u \in DOMAIN pages_data \cup {current_url} |->
            IF u = current_url
            THEN [links_found |-> Cardinality(page_links),
                  images_count |-> Len(images)]
            ELSE pages_data[u]]
    /\ pc' = "loop"
    /\ UNCHANGED << start_url, max_pages, site, urls_to_visit, visited_urls,
                    base_domain, current_url, soup, images, page_links, to_add,
                    fetch_log, enqueue_log, warnings, shown >>
    /\ UNCHANGED auxVars

\* main: if not pages_data: st.error("No pages found to crawl!"); return
MainShows ==
    /\ pc = "returned"
    /\ shown' = IF NumPages = 0 THEN "No pages found to crawl!" ELSE "Found pages"
    /\ pc' = "done"
    /\ UNCHANGED << start_url, max_pages, site, pages_data, urls_to_visit,
                    visited_urls, base_domain, current_url, soup, images,
                    page_links, to_add, fetch_log, enqueue_log, warnings >>
    /\ UNCHANGED auxVars

Next ==
    \/ CrawlStart
    \/ LoopPop
    \/ LoopExit
    \/ FetchFails
    \/ FetchSucceeds
    \/ FindImagesReturns
    \/ FindImagesRaises
    \/ FindLinks
    \/ EnqueueLink
    \/ StorePage
    \/ MainShows

Spec == Init /\ [][Next]_vars
\* --------------------------------------- find_navigation_links on its own
\* Elements and hrefs the link extraction is exercised on.
NavHrefLists ==
    { << HrefP >>, << HrefQ >>, << HrefP, HrefBad >>, << HrefBad, HrefQ >>,
      << HrefEvil >>, << HrefPFrag, HrefRoot >> }

NavElems ==
    UNION { { Nav(h), Header(h), RoleNav(h), UlList(h), HeaderDiv(h),
              Elem("nav", "", "", "", "header", h) } : h \in NavHrefLists }

\* Pages of one or two link-bearing elements, without images.
NavDocs ==
    { Doc(<< e >>, << >>) : e \in NavElems }
      \cup { Doc(<< e1, e2 >>, << >>) : e1 \in NavElems, e2 \in NavElems }

\* crawl_website on a fresh WebScraper at the call of find_navigation_links
\* for the seed page, the page being any of NavDocs.
InitNav ==
    /\ start_url \in Seeds
    /\ max_pages = 1
    /\ soup \in NavDocs
    /\ site = [u \in {UrlRoot, UrlP, UrlQ} |-> IF u = UrlRoot THEN soup ELSE EmptyDoc]
    /\ pages_data = << >>
    /\ urls_to_visit = << >>
    /\ visited_urls = {start_url}
    /\ base_domain = None
    /\ current_url = start_url
    /\ images = << >>
    /\ page_links = {}
    /\ to_add = {}
    /\ pc = "find_links"
    /\ fetch_log = << [url |-> start_url, ok |-> TRUE] >>
    /\ enqueue_log = << start_url >>
    /\ warnings = << >>
    /\ shown = "nothing"
    /\ AuxIdle

SpecNav == InitNav /\ [][FindLinks]_vars
\* ------------------------------------------------------------ properties
\* The URLs get_html_content was called with, in call order.
FetchedUrl(i) == fetch_log[i].url

\* Number of get_html_content calls that returned.
RECURSIVE CountOk(_)
CountOk(log) ==
    IF log = << >> THEN 0
    ELSE (IF Head(log).ok THEN 1 ELSE 0) + CountOk(Tail(log))

\* C1: within one crawl_website run no URL is the target of more than one
\* fetch attempt (a URL whose fetch failed is never fetched again).
C1_NoUrlFetchedTwice ==
    \A i, j \in DOMAIN fetch_log : i # j => FetchedUrl(i) # FetchedUrl(j)

\* C2: in every reachable state the visited URLs and the frontier are
\* disjoint, and the frontier never holds the same URL twice.
C2_FrontierDisjointNoDuplicates ==
    /\ \A i \in DOMAIN urls_to_visit : urls_to_visit[i] \notin visited_urls
    /\ \A i, j \in DOMAIN urls_to_visit :
           i # j => urls_to_visit[i] # urls_to_visit[j]

\* C2 witness: the second page fetched links to a visited URL and to a URL
\* the seed page had already queued; the loop over its links appended neither.
C2_Witness ==
    /\ pc = "enqueue"
    /\ to_add = {}
    /\ Len(fetch_log) = 2
    /\ start_url \in DOMAIN pages_data
    /\ pages_data[start_url].links_found = 2
    /\ Len(enqueue_log) = 3
    /\ \E l \in page_links : l \in visited_urls
    /\ \E l \in page_links :
           l \notin visited_urls /\ \E i \in DOMAIN urls_to_visit : urls_to_visit[i] = l

\* C3: the page map never holds more than max_pages records and the number
\* of successful fetches of the run never exceeds max_pages.
C3_BudgetBoundsPagesAndFetches ==
    /\ NumPages <= max_pages
    /\ CountOk(fetch_log) <= max_pages

\* C4: the page map never holds two records whose keys are equal after
\* fragment stripping.
C4_OneRecordPerStrippedUrl ==
    \A u, v \in DOMAIN pages_data :
        StripFragment(u) = StripFragment(v) => u = v

\* C5: pages are fetched in breadth-first discovery order: the seed is the
\* first URL fetched and the k-th fetch attempt is for the k-th URL put on
\* the frontier (first in, first out).
C5_BreadthFirstOrder ==
    /\ fetch_log # << >> => FetchedUrl(1) = start_url
    /\ Len(fetch_log) <= Len(enqueue_log)
    /\ \A k \in DOMAIN fetch_log : FetchedUrl(k) = enqueue_log[k]

\* C5 witness: three fetch attempts were made, the third for a URL found on
\* the seed page while a URL found on a later page still waits.
C5_Witness ==
    /\ Len(fetch_log) >= 3
    /\ urls_to_visit # << >>
    /\ FetchedUrl(2) # FetchedUrl(3)
    /\ pc = "loop"

\* C6: a failed fetch is isolated: when the crawl has returned, every URL
\* queued behind a failed one was attempted unless the budget was reached,
\* every URL whose fetch succeeded is in the page map, and no URL whose
\* fetch failed has a record.
C6_FailedFetchIsolated ==
    pc = "done" =>
        /\ urls_to_visit = << >> \/ NumPages >= max_pages
        /\ \A i \in DOMAIN fetch_log :
               IF fetch_log[i].ok
               THEN FetchedUrl(i) \in DOMAIN pages_data
               ELSE FetchedUrl(i) \notin DOMAIN pages_data

\* C7: for max_pages >= 1 the returned page map is empty only when the
\* fetch of the seed failed, a successful seed fetch leaves the seed's
\* record in the map, and main shows the 'no pages found' error exactly
\* for an empty map.
C7_EmptyOnlyWhenSeedFetchFailed ==
    (pc = "done" /\ max_pages >= 1) =>
        /\ fetch_log # << >>
        /\ NumPages = 0 => ~fetch_log[1].ok
        /\ fetch_log[1].ok => start_url \in DOMAIN pages_data
        /\ shown = "No pages found to crawl!" <=> NumPages = 0

\* Every URL the crawl of the modelled site can meet.
AllUrls == Seeds \cup {UrlRoot, UrlP, UrlQ, UrlEvil}

\* Steps left at most, by position in the loop body, within one iteration.
PcRank ==
    CASE pc = "done"        -> 0
      [] pc = "returned"    -> 1
      [] pc = "loop"        -> 2
      [] pc = "fetch"       -> 3
      [] pc = "enqueue"     -> 3
      [] pc = "find_links"  -> 3 * Cardinality(AllUrls) + 4
      [] pc = "find_images" -> 3 * Cardinality(AllUrls) + 5
      [] pc = "start"       -> 5

\* A natural number that every step of the crawl makes smaller: the URLs not
\* yet visited weigh most, then the links still to be looked at, then the
\* length of the frontier, then the position in the loop body.
Variant ==
    Cardinality(AllUrls \ visited_urls) * (3 * Cardinality(AllUrls) + 6)
      + 3 * Cardinality(to_add) + 2 * Len(urls_to_visit) + PcRank

\* C8: the crawl loop terminates (every step lowers the natural number
\* Variant, and a step is possible until the loop is left), and when it is
\* left the frontier is empty or the page map holds exactly max_pages records.
C8_TerminatesAtEmptyFrontierOrBudget ==
    /\ [][Variant' < Variant]_vars
    /\ [](pc = "loop" => (ENABLED LoopPop \/ ENABLED LoopExit))
    /\ [](pc = "fetch" => ENABLED FetchFails)
    /\ [](pc = "find_images" =>
             (ENABLED FindImagesReturns \/ ENABLED FindImagesRaises))
    /\ [](pc = "enqueue" => (ENABLED EnqueueLink \/ ENABLED StorePage))
    /\ [](pc = "returned" => (urls_to_visit = << >> \/ NumPages = max_pages))

\* C8 witness: the loop was left on the budget with URLs still queued.
C8_Witness ==
    /\ pc = "returned"
    /\ max_pages >= 2
    /\ NumPages = max_pages
    /\ urls_to_visit # << >>

\* What the scan of primary selector i adds to the links.
SelectorYield(doc, i, base_url, bd) ==
    ScanLinks(Flatten(Select(doc.elems, nav_selectors[i])), 1, base_url, bd).links

\* The in-domain links of all anchors primary selector i matches.
SelectorMatched(doc, i, base_url, bd) ==
    LET hrefs == Flatten(Select(doc.elems, nav_selectors[i]))
    IN  UNION { ScanLinks(<< hrefs[k] >>, 1, base_url, bd).links : k \in DOMAIN hrefs }

\* C9: find_navigation_links returns links of exactly one primary pattern,
\* the first selector of the list that yields an in-domain link; links that
\* only later selectors match are not in the result.
C9_FirstYieldingSelectorOnly ==
    pc = "enqueue" =>
        \A i \in DOMAIN nav_selectors :
            ( /\ SelectorYield(soup, i, current_url, base_domain) # {}
              /\ \A k \in 1..(i - 1) :
                     SelectorYield(soup, k, current_url, base_domain) = {} )
            => /\ SelectorYield(soup, i, current_url, base_domain) \subseteq page_links
               /\ page_links \subseteq SelectorMatched(soup, i, current_url, base_domain)

\* C10: every URL find_navigation_links returns, and every URL enqueued or
\* fetched, has exactly the seed's scheme and host.
C10_SameSchemeAndHost ==
    /\ \A l \in page_links : SchemeAndNetloc(l) = SchemeAndNetloc(start_url)
    /\ \A i \in DOMAIN enqueue_log :
           SchemeAndNetloc(enqueue_log[i]) = SchemeAndNetloc(start_url)
    /\ \A i \in DOMAIN fetch_log :
           SchemeAndNetloc(FetchedUrl(i)) = SchemeAndNetloc(start_url)
\* ------------------------------------------- URL normalization on its own
T_http == << "http:", "/", "/" >>

\* The seed page URL under both schemes.
NormSeeds == { UrlRoot, T_http \o SeedHost \o << "/" >> }

\* href and src attributes: protocol-relative, root-relative, relative and
\* absolute references, with and without a fragment.
HrefProtoRel == << "/", "/" >> \o SeedHost \o << "/", "p" >>
HrefPFragB   == << "/", "p", "#", "b" >>
HrefQFrag    == << "q", "#", "a" >>
HrefAbsFrag  == UrlP \o << "#", "a" >>

NormHrefs == { HrefProtoRel, HrefP, HrefPFrag, HrefPFragB, HrefQFrag, HrefAbsFrag }

NormSrcs == { HrefProtoRel, SrcLogo, HrefPFrag, HrefQFrag, HrefAbsFrag, HrefBad }

\* Pages with one <nav> of two links and one image.
NormDocs ==
    { Doc(<< Nav(<< h1, h2 >>) >>, << src >>) :
          h1 \in NormHrefs, h2 \in NormHrefs, src \in NormSrcs }

\* crawl_website on a fresh WebScraper right after the seed page was fetched,
\* the page being any of NormDocs.
InitNorm ==
    /\ start_url \in NormSeeds
    /\ max_pages = 1
    /\ soup \in NormDocs
    /\ site = [u \in {UrlRoot, UrlP, UrlQ} |-> EmptyDoc]
    /\ pages_data = << >>
    /\ urls_to_visit = << >>
    /\ visited_urls = {start_url}
    /\ base_domain = None
    /\ current_url = start_url
    /\ images = << >>
    /\ page_links = {}
    /\ to_add = {}
    /\ pc = "find_images"
    /\ fetch_log = << [url |-> start_url, ok |-> TRUE] >>
    /\ enqueue_log = << start_url >>
    /\ warnings = << >>
    /\ shown = "nothing"
    /\ AuxIdle

SpecNorm ==
    InitNorm /\ [][FindImagesReturns \/ FindImagesRaises \/ FindLinks]_vars

\* The hrefs of the page's <nav> and the src of its image.
NavHrefs(doc) == doc.elems[1].hrefs

\* C11: a protocol-relative reference '//host/path' is prefixed with the
\* seed URL's scheme, for an http seed as for an https seed: as a link it
\* is returned as '<seed scheme>//seedhost/p', as an image it gets that URL.
C11_ProtocolRelativeTakesSeedScheme ==
    /\ pc = "enqueue" =>
          \A k \in DOMAIN NavHrefs(soup) :
              NavHrefs(soup)[k] = HrefProtoRel =>
                  (<< start_url[1] >> \o HrefProtoRel) \in page_links
    /\ pc \in {"find_links", "enqueue"} =>
          \A k \in DOMAIN images :
              soup.imgs[images[k].index] = HrefProtoRel =>
                  images[k].url = << start_url[1] >> \o HrefProtoRel

\* C12 as stated: neither a link returned by find_navigation_links nor an
\* image URL returned by find_images contains a '#'.
C12_LinksAndImagesFragmentFree ==
    /\ \A l \in page_links : \A i \in DOMAIN l : l[i] # "#"
    /\ \A k \in DOMAIN images :
           \A i \in DOMAIN images[k].url : images[k].url[i] # "#"

\* The part of s before its first '#', read off the tokens.
BeforeHash(s) ==
    IF \E i \in DOMAIN s : s[i] = "#"
    THEN SubSeq(s, 1, (CHOOSE i \in DOMAIN s :
                          s[i] = "#" /\ \A j \in 1..(i - 1) : s[j] # "#") - 1)
    ELSE s

\* C12 amended: every link returned by find_navigation_links is free of '#',
\* so two hrefs that differ only in their fragment give one link, while
\* find_images keeps the fragment of a src.
C12_LinksFragmentFreeImagesKeepFragment ==
    /\ \A l \in page_links : \A i \in DOMAIN l : l[i] # "#"
    /\ pc = "enqueue" /\ BeforeHash(NavHrefs(soup)[1]) = BeforeHash(NavHrefs(soup)[2])
          => Cardinality(page_links) <= 1
    /\ \A k \in DOMAIN images :
           LET src == soup.imgs[images[k].index]
           IN  (\E i \in DOMAIN src : src[i] = "#")
                   => \E i \in DOMAIN images[k].url : images[k].url[i] = "#"

\* C12 witness: the <nav> holds /p#a and /p#b, which became the one link
\* /p, and the image src /p#a kept its fragment.
C12_Witness ==
    /\ pc = "enqueue"
    /\ NavHrefs(soup) = << HrefPFrag, HrefPFragB >>
    /\ page_links = {UrlP}
    /\ soup.imgs = << HrefPFrag >>
    /\ images = << [url |-> UrlP \o << "#", "a" >>, index |-> 1] >>

\* ------------------------------------------- main's image acquisition loop
\* Bound: the number of images main aggregates.
MaxImages == 2

\* str.lower() on the tokens of a URL.
LowerToken(t) ==
    IF t = ".JPG" THEN ".jpg"
    ELSE IF t = ".JPEG" THEN ".jpeg"
    ELSE IF t = ".PNG" THEN ".png"
    ELSE t

\* img_url.lower().endswith(suffixes)
LowerEndsWith(img_url, suffixes) ==
    /\ img_url # << >>
    /\ LowerToken(img_url[Len(img_url)]) \in suffixes

\* if img.mode in ('RGBA', 'LA', 'P'): pass  elif img.mode != 'RGB': convert
ConvertedMode(mode) ==
    IF mode \in {"RGBA", "LA", "P"} THEN mode
    ELSE IF mode # "RGB" THEN "RGB"
    ELSE mode

\* Mutant of OutputFormat: the PNG test comes before the JPEG test.
OutputFormat_PngFirst(content_type, img_url) ==
    IF content_type = "image/png" \/ LowerEndsWith(img_url, {".png"})
    THEN [ext |-> ".png", format |-> "PNG"]
    ELSE IF \/ content_type \in {"image/jpeg", "image/jpg"}
            \/ LowerEndsWith(img_url, {".jpg", ".jpeg"})
    THEN [ext |-> ".jpg", format |-> "JPEG"]
    ELSE [ext |-> ".png", format |-> "PNG"]

\* Determine output format: the if / elif / else of download_and_convert_image.
OutputFormat(content_type, img_url) ==
    IF \/ content_type \in {"image/jpeg", "image/jpg"}
       \/ LowerEndsWith(img_url, {".jpg", ".jpeg"})
    THEN [ext |-> ".jpg", format |-> "JPEG"]
    ELSE IF content_type = "image/png" \/ LowerEndsWith(img_url, {".png"})
    THEN [ext |-> ".png", format |-> "PNG"]
    ELSE [ext |-> ".png", format |-> "PNG"]

\* img.save raises OSError when the JPEG encoder is given a mode with
\* transparency or a palette.
SaveRaises(format, mode) == format = "JPEG" /\ mode \in {"RGBA", "LA", "P"}

\* os.path.join(output_dir, f"{filename}{ext}")
OutputPath(output_dir, filename, ext) ==
    output_dir \o << "/" >> \o filename \o << ext >>

\* What the server and the decoder do with one image URL: session.get raises,
\* raise_for_status raises, Image.open raises, or an image of some mode is
\* decoded from a response with some content-type header ("" when absent).
Responses ==
    { [outcome |-> o, content_type |-> "", mode |-> ""] :
        o \in {"connection_error", "http_error", "not_an_image"} }
    \cup
    { [outcome |-> "image", content_type |-> c, mode |-> m] :
        c \in {"image/jpeg", "image/jpg", "image/png", "image/gif", ""},
        m \in {"RGB", "RGBA", "L"} }

\* download_and_convert_image: the path written, None after any exception.
download_and_convert_image(img_url, output_dir, filename, resp) ==
    IF resp.outcome # "image" THEN None
    ELSE LET mode == ConvertedMode(resp.mode)
             out  == OutputFormat(resp.content_type, img_url)
         IN  IF SaveRaises(out.format, mode) THEN None
             ELSE OutputPath(output_dir, filename, out.ext)

\* images_dir = os.path.join(temp_dir, 'images')
images_dir == << "tmp", "/", "images" >>

\* f"image_{i+1:03d}_from_page_{img_data['global_index']}"
Filename(i, global_index) ==
    << "image_", "0", "0", ToString(i + 1), "_from_page_",
       ToString(global_index) >>

\* Mutant of KeepImage: the image is appended whatever the call returned.
KeepImage_Always(output_path) == TRUE

\* if output_path:
KeepImage(output_path) == output_path # None

\* Absolute image URLs of the site.
ImgUrls ==
    { UrlRoot \o << "a", e >> : e \in {".jpg", ".JPEG", ".png", ".gif"} }
    \cup { UrlRoot \o << "a", ".jpg", "?", "v" >> }

\* main's aggregation of the page's images: global_index = image_counter + 1.
RECURSIVE Aggregate(_, _)
Aggregate(page_images, image_counter) ==
    IF image_counter >= Len(page_images) THEN << >>
    ELSE << [url |-> page_images[image_counter + 1].url,
             index |-> page_images[image_counter + 1].index,
             global_index |-> image_counter + 1] >>
         \o Aggregate(page_images, image_counter + 1)

\* main after a crawl of one page whose images were aggregated.
InitImg ==
    /\ start_url = UrlRoot
    /\ max_pages = 1
    /\ \E n \in 0..MaxImages : \E srcs \in [1..n -> ImgUrls] :
         /\ site = [u \in {UrlRoot, UrlP, UrlQ} |->
                      IF u = UrlRoot THEN Doc(<< >>, srcs) ELSE EmptyDoc]
         /\ all_images = Aggregate(find_images(site[UrlRoot], UrlRoot).images, 0)
    /\ pages_data = [u \in {UrlRoot} |->
                       [links_found |-> 0, images_count |-> Len(all_images)]]
    /\ urls_to_visit = << >>
    /\ visited_urls = {UrlRoot}
    /\ base_domain = SchemeAndNetloc(UrlRoot)
    /\ current_url = UrlRoot
    /\ soup = site[UrlRoot]
    /\ images = find_images(site[UrlRoot], UrlRoot).images
    /\ page_links = {}
    /\ to_add = {}
    /\ pc = "process_images"
    /\ fetch_log = << [url |-> UrlRoot, ok |-> TRUE] >>
    /\ enqueue_log = << UrlRoot >>
    /\ warnings = << >>
    /\ shown = "Found pages"
    /\ img_i = 0
    /\ processed_images = << >>
    /\ img_log = << >>
    /\ errors = 0
    /\ img_element = << >>
    /\ location = None

crawlVars == << start_url, max_pages, site, pages_data, urls_to_visit,
                visited_urls, base_domain, current_url, soup, images,
                page_links, to_add, fetch_log, enqueue_log, warnings, shown >>

\* One iteration of "for i, img_data in enumerate(all_images)".
ProcessImage ==
    /\ pc = "process_images"
    /\ img_i < Len(all_images)
    /\ \E resp \in Responses :
         LET img_data    == all_images[img_i + 1]
             filename    == Filename(img_i, img_data.global_index)
             output_path == download_and_convert_image(
                                img_data.url, images_dir, filename, resp)
         IN  /\ processed_images' =
                  IF KeepImage(output_path)
                  THEN Append(processed_images,
                              [url |-> img_data.url,
                               global_index |-> img_data.global_index,
                               local_path |-> output_path])
                  ELSE processed_images
             /\ errors' = IF output_path = None THEN errors + 1 ELSE errors
             /\ img_log' = Append(img_log,
                                  [i |-> img_i, url |-> img_data.url,
                                   resp |-> resp, output_path |-> output_path])
    /\ img_i' = img_i + 1
    /\ UNCHANGED crawlVars
    /\ UNCHANGED << all_images, pc, img_element, location >>

\* After the loop: st.session_state.scraped_data = {...}
StoreResults ==
    /\ pc = "process_images"
    /\ img_i = Len(all_images)
    /\ pc' = "stored"
    /\ UNCHANGED crawlVars
    /\ UNCHANGED auxVars

SpecImg == InitImg /\ [][ProcessImage \/ StoreResults]_vars

\* The content-type header names JPEG.
HeaderSaysJpeg(resp) == resp.content_type \in {"image/jpeg", "image/jpg"}

\* The URL ends in a JPEG suffix, whatever its case.
UrlSaysJpeg(url) ==
    url[Len(url)] \in {".jpg", ".jpeg", ".JPG", ".JPEG"}

\* C13: every call of download_and_convert_image that returned a path returned
\* <output_dir>/<filename>.jpg exactly when the content-type or the URL suffix
\* says JPEG and <output_dir>/<filename>.png in every other case, so that JPEG
\* wins when the two disagree and no other extension is ever produced.
C13_JpegIffHeaderOrSuffixElsePng ==
    \A k \in 1..Len(img_log) :
        LET e    == img_log[k]
            stem == images_dir \o << "/" >>
                    \o Filename(e.i, all_images[e.i + 1].global_index)
        IN  e.output_path # None =>
              e.output_path =
                stem \o << IF HeaderSaysJpeg(e.resp) \/ UrlSaysJpeg(e.url)
                           THEN ".jpg" ELSE ".png" >>

\* A PNG header on a .jpg URL was saved as .jpg, and a GIF as .png.
C13_Witness ==
    /\ Len(img_log) = 2
    /\ img_log[1].resp.content_type = "image/png"
    /\ UrlSaysJpeg(img_log[1].url)
    /\ img_log[1].output_path # None
    /\ img_log[1].output_path[Len(img_log[1].output_path)] = ".jpg"
    /\ img_log[2].resp.content_type = "image/gif"
    /\ img_log[2].url[Len(img_log[2].url)] = ".gif"
    /\ img_log[2].output_path # None
    /\ img_log[2].output_path[Len(img_log[2].output_path)] = ".png"

\* The images among the first k of all_images whose call returned a path,
\* in their original order.
RECURSIVE Succeeded(_)
Succeeded(k) ==
    IF k = 0 THEN << >>
    ELSE IF img_log[k].output_path # None
         THEN Append(Succeeded(k - 1),
                     [url |-> all_images[k].url,
                      global_index |-> all_images[k].global_index,
                      local_path |-> img_log[k].output_path])
         ELSE Succeeded(k - 1)

\* C14: a download, HTTP-status or decode failure of one image returns no
\* path and does not stop the loop: every image before the loop index was
\* attempted once, in order, the processed list is exactly the images whose
\* call returned a path, in their original order, and the results are stored
\* only after every image was attempted.
C14_FailureIsolatedOrderKept ==
    /\ pc \in {"process_images", "stored"}
    /\ Len(img_log) = img_i
    /\ \A k \in 1..Len(img_log) :
         /\ img_log[k].i = k - 1
         /\ img_log[k].resp.outcome # "image" => img_log[k].output_path = None
    /\ processed_images = Succeeded(img_i)
    /\ errors = img_i - Len(processed_images)
    /\ pc = "stored" => img_i = Len(all_images)

\* The first image failed to decode, the second was still acquired and is the
\* only one in the stored list.
C14_Witness ==
    /\ pc = "stored"
    /\ Len(all_images) = 2
    /\ img_log[1].resp.outcome = "not_an_image"
    /\ img_log[2].output_path # None
    /\ Len(processed_images) = 1
    /\ processed_images[1].global_index = 2

\* ------------------------------------------- the order of header and role
\* The in-domain links of the anchors of element k of the page, and whether
\* scanning them raises.
ElemScan(k) == ScanLinks(soup.elems[k].hrefs, 1, current_url, base_domain)

\* The page's two elements i and j are separate regions with different
\* in-domain links whose scan does not raise.
TwoCleanRegions(i, j) ==
    /\ Len(soup.elems) = 2
    /\ i \in 1..2 /\ j \in 1..2 /\ i # j
    /\ soup.elems[i].parent = "" /\ soup.elems[j].parent = ""
    /\ ~ElemScan(i).raised /\ ~ElemScan(j).raised
    /\ ElemScan(i).links # {} /\ ElemScan(j).links # {}
    /\ ElemScan(i).links \cap ElemScan(j).links = {}

IsHeaderTag(e)   == e.tag = "header"
IsRoleNav(e)     == e.role = "navigation" /\ e.tag = "div" /\ e.cls = ""
IsHeaderClass(e) ==
    e.cls \in {"header", "site-header", "main-header"} /\ e.tag = "div"

\* C15 as stated: for a page whose only link-bearing regions are a <header>
\* and a separate role="navigation" element with other links, the links of
\* the role element are returned and those of the <header> are not.
C15_RoleBeforeHeaderTag ==
    pc = "enqueue" =>
        \A i, j \in 1..2 :
            ( /\ TwoCleanRegions(i, j)
              /\ IsHeaderTag(soup.elems[i])
              /\ IsRoleNav(soup.elems[j]) )
            => page_links = ElemScan(j).links

\* C15 amended: the <header> tag pattern is evaluated before the role
\* pattern, which is evaluated before the header class patterns: beside a
\* <header> the links of the <header> are returned and those of the role
\* element are not; beside an element of class header the links of the role
\* element are returned.
C15_HeaderTagThenRoleThenHeaderClass ==
    pc = "enqueue" =>
        \A i, j \in 1..2 :
            ( TwoCleanRegions(i, j) /\ IsRoleNav(soup.elems[j]) )
            => /\ IsHeaderTag(soup.elems[i]) => page_links = ElemScan(i).links
               /\ IsHeaderClass(soup.elems[i]) => page_links = ElemScan(j).links

\* <header>/p</header> beside <div role="navigation">q</div>: /p is returned.
C15_Witness ==
    /\ pc = "enqueue"
    /\ soup = Doc(<< Header(<< HrefP >>), RoleNav(<< HrefQ >>) >>, << >>)
    /\ page_links = {UrlP}

\* ------------------------------------------------------ get_image_location
\* while current and depth < 10
MaxDepth == 10

\* prev_heading.get_text().strip()[:50]
HeadingTextCap == 50

\* An <img> element is given by its ancestors, parent first, and by the
\* heading elements that precede it in the document, nearest first.  An
\* ancestor has a tag name, an id ("" is << >>) and its class tokens; a class
\* token and a text are sequences of pieces of text.
Ancestor(name, id, classes) == [name |-> name, id |-> id, classes |-> classes]
Heading(name, text) == [name |-> name, text |-> text]
ImgElement(ancestors, previous) == [ancestors |-> ancestors, previous |-> previous]

SectioningTags == {"header", "nav", "main", "section", "article", "aside", "footer"}
Keywords == {"header", "nav", "menu", "sidebar", "footer", "content", "main", "banner"}
HeadingTags == << "h1", "h2", "h3", "h4", "h5", "h6" >>

\* str.lower() on a piece of a class token.
LowerPiece(p) ==
    IF p = "Top" THEN "top"
    ELSE IF p = "Menu" THEN "menu"
    ELSE p

\* any(keyword in cls.lower() for keyword in [...])
HasKeyword(cls) == \E k \in DOMAIN cls : LowerPiece(cls[k]) \in Keywords

\* for cls in classes: if any(...): append(f".{cls}"); break
RECURSIVE ClassIndicator(_, _)
ClassIndicator(classes, k) ==
    IF k > Len(classes) THEN << >>
    ELSE IF HasKeyword(classes[k]) THEN << << "." >> \o classes[k] >>
    ELSE ClassIndicator(classes, k + 1)

\* What one iteration of the walk appends for the element current.
Indicators(current) ==
    (IF current.name \in SectioningTags THEN << << current.name >> >> ELSE << >>)
    \o (IF current.id # << >> THEN << << "#" >> \o current.id >> ELSE << >>)
    \o ClassIndicator(current.classes, 1)

\* The loop "while current and depth < 10" from the given depth on.
RECURSIVE WalkUp(_, _)
WalkUp(ancestors, depth) ==
    IF depth + 1 > Len(ancestors) \/ ~(depth < MaxDepth) THEN << >>
    ELSE Indicators(ancestors[depth + 1]) \o WalkUp(ancestors, depth + 1)

\* reversed(...)
Reversed(seq) == [k \in 1..Len(seq) |-> seq[Len(seq) + 1 - k]]

\* " > ".join(...)
RECURSIVE Join(_)
Join(parts) ==
    IF parts = << >> THEN << >>
    ELSE IF Len(parts) = 1 THEN parts[1]
    ELSE parts[1] \o << " > " >> \o Join(Tail(parts))

\* str.strip()
RECURSIVE LStrip(_)
LStrip(text) ==
    IF text # << >> /\ Head(text) = " " THEN LStrip(Tail(text)) ELSE text

Strip(text) == Reversed(LStrip(Reversed(LStrip(text))))

\* img_element.find_previous(heading): the position in previous of the
\* nearest preceding element of that tag, 0 when there is none.
RECURSIVE find_previous(_, _, _)
find_previous(previous, heading, k) ==
    IF k > Len(previous) THEN 0
    ELSE IF previous[k].name = heading THEN k
    ELSE find_previous(previous, heading, k + 1)

\* The loop "for heading in ['h1', ..., 'h6']" from level h on: the
\* indicators it appends.
RECURSIVE NearHeading(_, _)
NearHeading(previous, h) ==
    IF h > Len(HeadingTags) THEN << >>
    ELSE LET prev_heading == find_previous(previous, HeadingTags[h], 1)
         IN  IF /\ prev_heading # 0
                /\ Len(Strip(previous[prev_heading].text)) > 0
             THEN LET text == Strip(previous[prev_heading].text)
                  IN  << << "Near heading: " >>
                         \o SubSeq(text, 1, Min(HeadingTextCap, Len(text))) >>
             ELSE NearHeading(previous, h + 1)

get_image_location(img) ==
    LET walked == WalkUp(img.ancestors, 0)
        location_indicators ==
            IF walked = << >> THEN NearHeading(img.previous, 1) ELSE walked
    IN  IF location_indicators # << >>
        THEN Join(Reversed(location_indicators))
        ELSE << "Unknown section" >>

\* Ancestors: without indicator, a sectioning tag, an id, a keyword class
\* in mixed case, a class without keyword, and all three kinds at once.
PlainDiv   == Ancestor("div", << >>, << >>)
Section    == Ancestor("section", << >>, << >>)
HeroDiv    == Ancestor("div", << "hero" >>, << >>)
MenuDiv    == Ancestor("div", << >>, << << "Top", "-", "Menu" >> >>)
BtnDiv     == Ancestor("div", << >>, << << "btn" >> >>)
FullHeader == Ancestor("header", << "top" >>,
                       << << "btn" >>, << "main", "-", "nav" >>, << "footer" >> >>)

AncestorKinds == { PlainDiv, Section, HeroDiv, MenuDiv, BtnDiv, FullHeader }

\* Chains of one or two ancestors, and a <section> as the last ancestor
\* within the walk and as the first one beyond it.
AncestorChains ==
    { << a >> : a \in AncestorKinds }
    \cup { << a, b >> : a \in AncestorKinds, b \in AncestorKinds }
    \cup { [k \in 1..MaxDepth |-> IF k = MaxDepth THEN Section ELSE PlainDiv],
           [k \in 1..(MaxDepth + 1) |->
               IF k = MaxDepth + 1 THEN Section ELSE PlainDiv] }

TxtTeam   == << "T", "e", "a", "m" >>
TxtPadded == << " ", "T", "i", "t", "l", "e", " " >>
TxtBlank  == << " ", " " >>
TxtAtCap  == [k \in 1..HeadingTextCap |-> "x"]
TxtOver   == [k \in 1..(HeadingTextCap + 1) |->
                 IF k > HeadingTextCap THEN "y" ELSE "x"]

HeadingKinds ==
    { Heading("h1", TxtPadded), Heading("h1", << >>), Heading("h1", TxtBlank),
      Heading("h2", TxtTeam), Heading("h2", TxtOver), Heading("h3", TxtAtCap),
      Heading("h6", TxtTeam) }

\* No, one or two headings before the image.
PreviousHeadings ==
    { << >> } \cup { << h >> : h \in HeadingKinds }
    \cup { << h, g >> : h \in HeadingKinds, g \in HeadingKinds }

\* find_images on the seed page at the call of get_image_location for an
\* <img> of the page.
InitLoc ==
    /\ start_url = UrlRoot
    /\ max_pages = 1
    /\ soup = Doc(<< >>, << SrcLogo >>)
    /\ site = [u \in {UrlRoot, UrlP, UrlQ} |-> IF u = UrlRoot THEN soup ELSE EmptyDoc]
    /\ pages_data = << >>
    /\ urls_to_visit = << >>
    /\ visited_urls = {UrlRoot}
    /\ base_domain = None
    /\ current_url = UrlRoot
    /\ images = << >>
    /\ page_links = {}
    /\ to_add = {}
    /\ pc = "get_image_location"
    /\ fetch_log = << [url |-> UrlRoot, ok |-> TRUE] >>
    /\ enqueue_log = << UrlRoot >>
    /\ warnings = << >>
    /\ shown = "nothing"
    /\ all_images = << >>
    /\ img_i = 0
    /\ processed_images = << >>
    /\ img_log = << >>
    /\ errors = 0
    /\ \E a \in AncestorChains : \E p \in PreviousHeadings :
           img_element = ImgElement(a, p)
    /\ location = None

\* location = self.get_image_location(img)
GetImageLocation ==
    /\ pc = "get_image_location"
    /\ location' = get_image_location(img_element)
    /\ pc' = "located"
    /\ UNCHANGED crawlVars
    /\ UNCHANGED << all_images, img_i, processed_images, img_log, errors,
                    img_element >>

SpecLoc == InitLoc /\ [][GetImageLocation]_vars

\* The first MaxDepth ancestors of the image.
NearAncestors == SubSeq(img_element.ancestors, 1,
                        Min(MaxDepth, Len(img_element.ancestors)))

\* The ancestor contributes an indicator: sectioning tag, id or keyword class.
Contributes(a) ==
    \/ a.name \in SectioningTags
    \/ a.id # << >>
    \/ \E k \in DOMAIN a.classes : HasKeyword(a.classes[k])

\* The indicators of the ancestors k, k-1, ..., 1: outermost ancestor first.
RECURSIVE OutermostFirst(_)
OutermostFirst(k) ==
    IF k = 0 THEN << >>
    ELSE Reversed(Indicators(NearAncestors[k])) \o OutermostFirst(k - 1)

\* The preceding headings whose stripped text is not empty.
TextHeadings ==
    { k \in DOMAIN img_element.previous :
        Strip(img_element.previous[k].text) # << >> }

\* The heading the fallback names: among the preceding headings with text the
\* ones of the highest level (h1 before h2 ...), and of these the nearest.
BestHeading ==
    CHOOSE k \in TextHeadings :
        \A j \in TextHeadings :
            LET lk == CHOOSE l \in DOMAIN HeadingTags :
                          HeadingTags[l] = img_element.previous[k].name
                lj == CHOOSE l \in DOMAIN HeadingTags :
                          HeadingTags[l] = img_element.previous[j].name
            IN  lk < lj \/ (lk = lj /\ k <= j)

\* C16: the label is never empty; it is the indicators of the first 10
\* ancestors joined with ' > ', outermost first, when one of them contributes
\* an indicator; otherwise 'Near heading: ' plus the first 50 characters of
\* the text of a preceding heading with non-empty text, h1 before h2 ...
\* before h6, when there is one; otherwise 'Unknown section'.
C16_StrictFallbackOrder ==
    pc = "located" =>
        /\ location # << >>
        /\ IF \E k \in DOMAIN NearAncestors : Contributes(NearAncestors[k])
           THEN location = Join(OutermostFirst(Len(NearAncestors)))
           ELSE IF TextHeadings # {}
           THEN LET text == Strip(img_element.previous[BestHeading].text)
                IN  location = << "Near heading: " >>
                               \o SubSeq(text, 1, Min(HeadingTextCap, Len(text)))
           ELSE location = << "Unknown section" >>
====
